---- MODULE Spec2Model ----
(***************************************************************************)
(* A model of app_advanced.py: the module-level startup (directory scan,   *)
(* agents and their toolkits, the team) and one served team run.           *)
(*                                                                         *)
(* The team leader and the member agents are language models.  What they   *)
(* are told (the instructions lists) is text handed to the model; the      *)
(* source has no statement that checks or enforces it.  The leader's next  *)
(* step (delegate to a member, or answer the user) and a member's next     *)
(* step (request a tool, or return) are therefore inputs of the program,   *)
(* chosen from the sets the configuration fixes: the members list and the  *)
(* tools lists.                                                            *)
(***************************************************************************)
EXTENDS Integers, Sequences, FiniteSets

(* ------------------------------ bounds -------------------------------- *)
\* delegations the leader makes in one run
MaxCalls == 3
\* distinct image files a run writes under plots/
MaxCharts == 5

(* ------------------------- configuration ------------------------------ *)
\* the CSV files that may lie in data/
CsvNames == {"car_details.csv"}

\* "YOU MUST CREATE EXACTLY 5 CHARTS"
NumCharts == 5

\* Team(members=[...]): the member ids in list order
members ==
  << "data-discovery-agent", "data-analysis-agent", "statistical-agent",
     "visualization-agent", "report-agent" >>

\* a phase is named by its ordinal, starting at 0
Phases == 0 .. (Len(members) - 1)

Discovery == 0
Analysis == 1
Statistics == 2
Visualization == 3
Report == 4

Toolkits == {"CsvTools", "FileTools", "PandasTools", "VisualizationTools"}

\* the tools lists with the chart toolkit also handed to the statistics member
tools_with_charts_for_statistics(agent) ==
  CASE agent = "data-discovery-agent" -> {"CsvTools", "FileTools"}
    [] agent = "data-analysis-agent" -> {"PandasTools", "CsvTools", "FileTools"}
    [] agent = "statistical-agent" ->
         {"PandasTools", "VisualizationTools", "FileTools"}
    [] agent = "visualization-agent" ->
         {"PandasTools", "VisualizationTools", "FileTools"}
    [] agent = "report-agent" -> {"PandasTools", "FileTools"}

\* the tools lists with the chart toolkit also handed to the report member
tools_with_charts_for_report(agent) ==
  CASE agent = "data-discovery-agent" -> {"CsvTools", "FileTools"}
    [] agent = "data-analysis-agent" -> {"PandasTools", "CsvTools", "FileTools"}
    [] agent = "statistical-agent" -> {"PandasTools", "FileTools"}
    [] agent = "visualization-agent" ->
         {"PandasTools", "VisualizationTools", "FileTools"}
    [] agent = "report-agent" ->
         {"PandasTools", "VisualizationTools", "FileTools"}

\* Agent(tools=[...]) of each member
tools(agent) ==
  CASE agent = "data-discovery-agent" -> {"CsvTools", "FileTools"}
    [] agent = "data-analysis-agent" -> {"PandasTools", "CsvTools", "FileTools"}
    [] agent = "statistical-agent" -> {"PandasTools", "FileTools"}
    [] agent = "visualization-agent" ->
         {"PandasTools", "VisualizationTools", "FileTools"}
    [] agent = "report-agent" -> {"PandasTools", "FileTools"}

\* the kind of output a toolkit leaves behind
KindOf(toolkit) ==
  CASE toolkit = "CsvTools" -> "metadata-record"
    [] toolkit = "PandasTools" -> "dataframe-handle"
    [] toolkit = "VisualizationTools" -> "image-file"
    [] toolkit = "FileTools" -> "report-file"

\* what the leader is told each phase has to deliver (PHASE 1 .. PHASE 5)
RequiredKind(p) ==
  CASE p = Discovery -> "metadata-record"
    [] p = Analysis -> "dataframe-handle"
    [] p = Statistics -> "dataframe-handle"
    [] p = Visualization -> "image-file"
    [] p = Report -> "report-file"

\* the earlier phases whose output a member's instructions name: the
\* statistics and chart instructions use main_df, which the analysis member
\* creates; the report lists the five chart files
References(p) ==
  CASE p = Discovery -> {}
    [] p = Analysis -> {}
    [] p = Statistics -> {Analysis}
    [] p = Visualization -> {Analysis}
    [] p = Report -> {Visualization}

\* the file list a member's CsvTools was built with:
\* CsvTools(csvs=csv_files) if csv_files else CsvTools(csvs=[])
csvs(agent, files) ==
  IF "CsvTools" \in tools(agent) THEN (IF files # {} THEN files ELSE {}) ELSE {}

Statuses == {"success", "failure", "partial"}

\* "no member is running": one past the last ordinal
NoPhase == Len(members)

NoRequest == "none"

(* ------------------------------ state --------------------------------- *)
VARIABLES
  data_dir,    \* the CSV files that lie in data/ now
  csv_files,   \* list(DATA_DIR.glob("*.csv")) as taken at import
  pc,          \* "startup", "serving", "leader", "selecting", "invoking",
               \* "responded"
  current,     \* ordinal of the member now running, or NoPhase
  request,     \* toolkit the running member has asked for, or NoRequest
  history,     \* per member: the status of each of its finished runs, in order
  last_error,  \* the error recorded in the answer the leader got last
  registry     \* outputs left behind: records [phase, kind, name]

vars ==
  << data_dir, csv_files, pc, current, request, history, last_error,
     registry >>

(* ----------------------------- helpers -------------------------------- *)
Images(reg, p) == {a \in reg : a.phase = p /\ a.kind = "image-file"}

AllImages(reg) == {a \in reg : a.kind = "image-file"}

\* the name a new output gets, as a number: image files are numbered as they
\* appear (1, 2, ...); every other kind has the one name the instructions fix
\* for it (main_df, the report path), written 0
NameOf(kind, reg) ==
  IF kind = "image-file" THEN Cardinality(AllImages(reg)) + 1 ELSE 0

Artifact(p, toolkit, reg) ==
  [phase |-> p, kind |-> KindOf(toolkit), name |-> NameOf(KindOf(toolkit), reg)]

\* phase p has delivered what the leader is told to wait for: an output of
\* its kind produced by p itself, and for the charts all NumCharts of them
Complete(p, reg) ==
  IF p = Visualization
    THEN Cardinality(Images(reg, p)) = NumCharts
    ELSE \E a \in reg : a.phase = p /\ a.kind = RequiredKind(p)

\* a member is inside a run
Running == pc \in {"selecting", "invoking"}

\* number of delegations made to phase p, the running one included
Attempts(p) == Len(history[p]) + (IF Running /\ current = p THEN 1 ELSE 0)

RECURSIVE AttemptsUpTo(_)
AttemptsUpTo(p) == IF p < 0 THEN 0 ELSE Attempts(p) + AttemptsUpTo(p - 1)

\* number of delegations the leader has made in this run
Delegations == AttemptsUpTo(Len(members) - 1)

\* the error a member's last answer carries
Refusal(p, toolkit) == [phase |-> p, toolkit |-> toolkit, error |-> "InvalidInput"]

NoError == [phase |-> NoPhase, toolkit |-> NoRequest, error |-> "none"]

\* phase p still lacks what it has to deliver
Missing(p, reg) ==
  IF p = Visualization
    THEN Cardinality(Images(reg, p)) < NumCharts
    ELSE ~ \E a \in reg : a.phase = p /\ a.kind = RequiredKind(p)

(* ------------------------------ startup ------------------------------- *)
Init ==
  /\ data_dir \in SUBSET CsvNames
  /\ csv_files = {}
  /\ pc = "startup"
  /\ current = NoPhase
  /\ request = NoRequest
  /\ history = [p \in Phases |-> << >>]
  /\ last_error = NoError
  /\ registry = {}

\* module import up to agent_os.serve(): data/ is scanned once; an empty
\* scan is logged and startup goes on
Startup ==
  /\ pc = "startup"
  /\ csv_files' = data_dir
  /\ pc' = "serving"
  /\ UNCHANGED << data_dir, current, request, history, last_error,
                  registry >>

\* someone puts a CSV file into data/ ("Please add your CSV files to the
\* 'data' folder"); the directory is outside the program, so at any time
PlaceCsvFile(f) ==
  /\ f \notin data_dir
  /\ data_dir' = data_dir \cup {f}
  /\ UNCHANGED << csv_files, pc, current, request, history, last_error,
                  registry >>

\* the served team receives a user request
UserRequest ==
  /\ pc = "serving"
  /\ pc' = "leader"
  /\ UNCHANGED << data_dir, csv_files, current, request, history, last_error,
                  registry >>

(* ---------------------------- team leader ----------------------------- *)
\* the leader model calls a member; nothing restricts which one, or how often
Delegate(p) ==
  /\ pc = "leader"
  /\ Delegations < MaxCalls
  /\ current' = p
  /\ pc' = "selecting"
  /\ last_error' = NoError
  /\ UNCHANGED << data_dir, csv_files, request, history, registry >>

\* the leader model writes the final user response ("Analysis Complete!")
Respond ==
  /\ pc = "leader"
  /\ pc' = "responded"
  /\ UNCHANGED << data_dir, csv_files, current, request, history, last_error,
                  registry >>

(* ----------------------------- member run ----------------------------- *)
\* the running member model asks for a toolkit
Select(toolkit) ==
  /\ pc = "selecting"
  /\ request' = toolkit
  /\ pc' = "invoking"
  /\ UNCHANGED << data_dir, csv_files, current, history, last_error,
                  registry >>

\* the toolkit asked for is one the member was built with: it runs, and
\* either leaves its output behind or fails
InvokeTool(ok) ==
  /\ pc = "invoking"
  /\ request \in tools(members[current + 1])
  /\ IF ok /\ (KindOf(request) = "image-file"
                 => Cardinality(AllImages(registry)) < MaxCharts)
       THEN registry' = registry \cup {Artifact(current, request, registry)}
       ELSE registry' = registry
  /\ request' = NoRequest
  /\ pc' = "selecting"
  /\ UNCHANGED << data_dir, csv_files, current, history, last_error >>

\* the toolkit asked for is not one the member was built with: the request
\* is refused as InvalidInput and the task comes back failed
RejectTool ==
  /\ pc = "invoking"
  /\ request \notin tools(members[current + 1])
  /\ history' = [history EXCEPT ![current] = Append(@, "failure")]
  /\ last_error' = Refusal(current, request)
  /\ request' = NoRequest
  /\ current' = NoPhase
  /\ pc' = "leader"
  /\ UNCHANGED << data_dir, csv_files, registry >>

\* the member's answer goes back to the leader
MemberReturn(status) ==
  /\ pc = "selecting"
  /\ history' = [history EXCEPT ![current] = Append(@, status)]
  /\ current' = NoPhase
  /\ pc' = "leader"
  /\ UNCHANGED << data_dir, csv_files, request, last_error, registry >>

(* --------------------------- specification ---------------------------- *)
Next ==
  \/ Startup
  \/ \E f \in CsvNames : PlaceCsvFile(f)
  \/ UserRequest
  \/ \E p \in Phases : Delegate(p)
  \/ Respond
  \/ \E toolkit \in Toolkits : Select(toolkit)
  \/ \E ok \in BOOLEAN : InvokeTool(ok)
  \/ RejectTool
  \/ \E status \in Statuses : MemberReturn(status)

Spec == Init /\ [][Next]_vars

(* one member run, taken alone: the leader's first delegation has just been
   made, to any member *)
AgentInit ==
  /\ data_dir \in SUBSET CsvNames
  /\ csv_files \in SUBSET data_dir
  /\ pc = "selecting"
  /\ current \in Phases
  /\ request = NoRequest
  /\ history = [p \in Phases |-> << >>]
  /\ last_error = NoError
  /\ registry = {}

AgentNext ==
  \/ \E toolkit \in Toolkits : Select(toolkit)
  \/ \E ok \in BOOLEAN : InvokeTool(ok)
  \/ RejectTool
  \/ \E status \in Statuses : MemberReturn(status)

AgentSpec == AgentInit /\ [][AgentNext]_vars

\* the same member run, with the one thing the program's scheduling gives:
\* while a step of the run can be taken, one is taken (the model answers,
\* the framework runs the tool asked for).  No Agent(...) sets a limit on
\* tool calls, and nothing makes the member model choose to return.
AgentLiveSpec == AgentSpec /\ WF_vars(AgentNext)

TypeOK ==
  /\ data_dir \subseteq CsvNames
  /\ csv_files \subseteq data_dir
  /\ pc \in {"startup", "serving", "leader", "selecting", "invoking", "responded"}
  /\ current \in Phases \cup {NoPhase}
  /\ (current # NoPhase) = Running
  /\ request \in Toolkits \cup {NoRequest}
  /\ (request # NoRequest) = (pc = "invoking")
  /\ Delegations <= MaxCalls
  /\ \A p \in Phases : \A i \in 1 .. Len(history[p]) :
       history[p][i] \in Statuses
  /\ last_error.error \in {"none", "InvalidInput"}
  /\ \A a \in registry : a.phase \in Phases

(* ------------------------------ claims -------------------------------- *)

\* C1: a run ends with the final response only when every phase has
\* delivered what it is required to (there is no other way for a run to
\* end: the program has no OrchestrationError).
C1_FinalSummaryHasEveryArtifact ==
  pc = "responded" => \A p \in Phases : Complete(p, registry)

\* C2: no phase's agent is invoked more than twice in a run.
C2_AtMostTwoAttempts == \A p \in Phases : Attempts(p) <= 2

\* C3: phases run in ordinal order: while a member runs, every earlier
\* phase is complete and no later phase has been invoked yet.
C3_PhasesInOrdinalOrder ==
  Running =>
    /\ \A q \in Phases : q < current => Complete(q, registry)
    /\ \A q \in Phases : q > current => Attempts(q) = 0

\* the orchestrator has moved beyond phase p
AdvancedPast(p) ==
  \/ pc = "responded"
  \/ \E q \in Phases : q > p /\ Attempts(q) > 0

\* C4: once the run has advanced past phase p, the registry holds an output
\* of p's required kind whose producing phase is p itself.
C4_AdvancedOnlyPastCompletePhases ==
  \A p \in Phases :
    AdvancedPast(p) =>
      \E a \in registry : a.phase = p /\ a.kind = RequiredKind(p)

\* C5: the Report phase runs only while exactly NumCharts image files are
\* registered for the Visualization phase; and once a first Visualization
\* attempt has left fewer than that, nothing but its retry follows.
C5_ReportOnlyAfterFiveCharts ==
  /\ (Running /\ current = Report) =>
       Cardinality(Images(registry, Visualization)) = NumCharts
  /\ (Len(history[Visualization]) = 1 /\ Missing(Visualization, registry)) =>
       (pc = "leader" \/ (Running /\ current = Visualization))

\* the i-th attempt of phase p failed: it said so, or p still lacks its
\* required output (outputs are never removed, so it lacked it then too)
Failed(p, i) ==
  \/ history[p][i] = "failure"
  \/ Missing(p, registry)

\* C6: after phase p has failed on its first and on its second attempt, no
\* later phase is invoked and the registry holds no output of a later phase.
C6_HaltAfterSecondFailure ==
  \A p \in Phases :
    (Len(history[p]) >= 2 /\ Failed(p, 1) /\ Failed(p, 2)) =>
      \A q \in Phases :
        q > p => (Attempts(q) = 0 /\ ~ \E a \in registry : a.phase = q)

\* the step taken on a request for a toolkit outside the member's set
RefusedStep ==
  /\ pc' = "leader"
  /\ registry' = registry
  /\ history'[current] = Append(history[current], "failure")
  /\ last_error' =
       [phase |-> current, toolkit |-> request, error |-> "InvalidInput"]

\* C7: a request for a toolkit outside the running member's permitted set is
\* refused as InvalidInput and the task comes back failed, with nothing
\* written (this is the step the program takes on it: meanwhile only data/
\* can change); a toolkit runs only if it is in the set; and the statistics
\* member never runs the chart toolkit, so no image file is ever its output.
C7_OutsideCapabilityRejected ==
  [][
    /\ (pc = "invoking" /\ request \notin tools(members[current + 1])
                        /\ pc' # pc)
         => RefusedStep
    /\ (pc = "invoking" /\ pc' = "selecting")
         => request \in tools(members[current + 1])
    /\ (pc = "invoking" /\ current = Statistics
                        /\ request = "VisualizationTools"
                        /\ pc' # pc)
         => RefusedStep
    /\ \A a \in registry' : ~ (a.phase = Statistics /\ a.kind = "image-file")
  ]_vars

\* the statistics member has asked for the chart toolkit and was refused
C7_StatisticsRefusedCharts ==
  /\ pc = "leader"
  /\ last_error =
       [phase |-> Statistics, toolkit |-> "VisualizationTools",
        error |-> "InvalidInput"]
  /\ history[Statistics] # << >>
  /\ history[Statistics][Len(history[Statistics])] = "failure"

\* C10: a phase whose first attempt came back without failure and with its
\* required output in place is not invoked a second time.
C10_CompletePhaseInvokedOnce ==
  [][
    \A p \in Phases :
      ( /\ pc = "leader"
        /\ Len(history[p]) = 1
        /\ history[p][1] # "failure"
        /\ Complete(p, registry) )
      => ~ (pc' = "selecting" /\ current' = p)
  ]_vars

\* C11: every member run terminates: started on a task, the member comes
\* back to the leader (after a bounded number of tool invocations).
C11_EveryRunTerminates == <>(pc = "leader")

\* C13: a member is never given its task while an output the task names is
\* absent: every phase the running member's instructions refer to has
\* already delivered (a plan that refers to anything else never starts).
C13_TaskNeverNamesAbsentArtifact ==
  Running => \A q \in References(current) : Complete(q, registry)

\* C14: a run in which some phase has failed on its first attempt and on
\* its retry is reported as failed: it never ends with the final response
\* that presents the analysis as complete.
C14_FailedRunNeverReportedComplete ==
  (\E p \in Phases : Len(history[p]) >= 2 /\ Failed(p, 1) /\ Failed(p, 2))
    => pc # "responded"

\* C16: outputs are registered only after the member's run has returned and
\* only for the phase then executing: the registry does not change while a
\* member is inside its run, every new entry carries the ordinal of the
\* phase executing, and no entry's phase lies beyond the phase now running.
C16_RegistryWrittenOnlyAfterRunReturns ==
  [][
    /\ Running => registry' = registry
    /\ \A a \in registry' \ registry : a.phase = current
    /\ Running' => \A a \in registry' : a.phase <= current'
  ]_vars

\* C17: a partial answer propagates: when the furthest phase reached has
\* made one attempt, which came back partial with the phase's required
\* output in place, the leader's next step is the call of the next phase;
\* it neither repeats the phase nor ends the run there.
C17_PartialAndCompleteAdvances ==
  [][
    \A p \in Phases :
      ( /\ pc = "leader"
        /\ p < Report
        /\ \A q \in Phases : q > p => Attempts(q) = 0
        /\ history[p] = << "partial" >>
        /\ Complete(p, registry) )
      => (pc' = "selecting" /\ current' = p + 1)
  ]_vars

\* C18: a CSV file put into data/ after a startup that found none is
\* available to the CSV toolkit of the discovery and analysis members:
\* whenever one of them runs CsvTools, the toolkit's file list holds every
\* CSV file that lies in data/.
C18_PlacedCsvAvailableToCsvTools ==
  ( /\ pc = "invoking"
    /\ request = "CsvTools"
    /\ current \in {Discovery, Analysis} )
  => data_dir \subseteq csvs(members[current + 1], csv_files)

\* C19: the chart toolkit is in the tools list of the visualization member
\* and of no other member, and every image file among the outputs was
\* produced by the Visualization phase.
C19_ImagesOnlyFromVisualization ==
  /\ \A p \in Phases :
       ("VisualizationTools" \in tools(members[p + 1])) = (p = Visualization)
  /\ \A a \in registry : a.kind = "image-file" => a.phase = Visualization

\* the visualization member has written a chart and is still running
C19_VisualizationWroteChart ==
  /\ pc = "selecting"
  /\ current = Visualization
  /\ Images(registry, Visualization) # {}

====
